---- MODULE Spec2Model ----
(***************************************************************************)
(* Model of the lumberjack v2 server-side reader (reader.ReadBatch and its *)
(* helpers) and of lj.Batch (NewBatch, ACK, Await).                        *)
(*                                                                         *)
(* The connection is modelled at the byte level: `wire` is the sequence of *)
(* bytes the peer delivers, `pos` the number of bytes the reader has       *)
(* consumed.  Compressed frames carry real zlib streams made of deflate    *)
(* stored blocks (what a level-0 zlib writer emits), closed by an Adler-32 *)
(* checksum, so decompression is computed, not assumed.                    *)
(***************************************************************************)
EXTENDS Integers, Sequences, FiniteSets, TLC

VARIABLES
    wire,       \* bytes the peer delivers on the connection, in order
    endKind,    \* what the connection does once `wire` is used up
    tls,        \* connection type and, for TLS, its verified chains
    pos,        \* bytes of `wire` consumed through r.in so far
    buf,        \* r.buf, the reader's reusable decode buffer
    deadline,   \* the connection's read deadline: "none" or "armed"
    batches,    \* the Batch objects created so far (index = identity)
    ret,        \* what the last ReadBatch call returned
    calls,      \* number of ReadBatch calls made
    obs,        \* the observers of Await(): what each waits for / has seen,
                \* and whether it started waiting before the channel was closed
    ackCalls,   \* per Batch, the number of ACK() calls made on it
    panicked,   \* TRUE once the program has panicked
    script      \* the frames the peer encoded into `wire` (for reference)

vars == <<wire, endKind, tls, pos, buf, deadline, batches, ret, calls,
          obs, ackCalls, panicked, script>>

----------------------------------------------------------------------------
(* Bounds of the model.                                                    *)

MaxCount == 2
MaxPad == 1
MaxCalls == 2
MaxObservers == 2
MaxItems == 2
MaxPayloadLen == 2

----------------------------------------------------------------------------
(* Protocol constants (package protocol/v2).                               *)

CodeVersion == 50
CodeWindowSize == 87
CodeJSONDataFrame == 74
CodeCompressed == 67

----------------------------------------------------------------------------
(* Generic helpers on byte sequences.                                      *)

Min(a, b) == IF a < b THEN a ELSE b

Drop(s, n) == SubSeq(s, n + 1, Len(s))

Take(s, n) == SubSeq(s, 1, Min(n, Len(s)))

\* binary.BigEndian.Uint32 of the 4 bytes of b that follow offset i.  Values
\* of 2^30 and more are all read as 2^30: they only ever stand for a length
\* far beyond what any stream of the model holds.
Uint32(b, i) ==
    IF b[i + 1] >= 64 THEN 1073741824
    ELSE ((b[i + 1] * 256 + b[i + 2]) * 256 + b[i + 3]) * 256 + b[i + 4]

\* binary.BigEndian.PutUint32
PutUint32(n) ==
    << (n \div 16777216) % 256, (n \div 65536) % 256, (n \div 256) % 256, n % 256 >>

RECURSIVE AdlerSums(_, _, _, _)
AdlerSums(d, i, a, b) ==
    IF i > Len(d) THEN <<a, b>>
    ELSE LET a2 == (a + d[i]) % 65521
         IN  AdlerSums(d, i + 1, a2, (b + a2) % 65521)

\* hash/adler32.Checksum, as its 4 big-endian bytes
Adler32(d) ==
    LET s == AdlerSums(d, 1, 1, 0)
    IN  << s[2] \div 256, s[2] % 256, s[1] \div 256, s[1] % 256 >>

----------------------------------------------------------------------------
(* Readable sources.  A source is the bytes it can still deliver and the   *)
(* error a read meets once they are used up.                               *)

Source(data, end) == [data |-> data, end |-> end]

\* io.ErrUnexpectedEOF in place of io.EOF
noEOF(e) == IF e = "EOF" THEN "ErrUnexpectedEOF" ELSE e

\* io.ReadFull(in, buf[:n]) at offset off of the source
readFull(in, off, n) ==
    LET avail == Len(in.data) - off IN
    IF n = 0 THEN [err |-> "nil", off |-> off]
    ELSE IF avail >= n THEN [err |-> "nil", off |-> off + n]
    ELSE [err |-> IF avail > 0 THEN noEOF(in.end) ELSE in.end,
          off |-> Len(in.data)]

----------------------------------------------------------------------------
(* The zlib reader (klauspost/compress/zlib over compress/flate) for       *)
(* streams of deflate stored blocks.  With less than one window (32 KiB)   *)
(* of output the decompressor inflates the whole stream on the first Read  *)
(* and hands the output out afterwards; its final error is delivered with  *)
(* the Read that takes the last output byte.                               *)

\* zlib.NewReader: the 2-byte header (and the preset dictionary id)
zlibNewReader(limit) ==
    LET h == readFull(limit, 0, 2) IN
    IF h.err # "nil" THEN [err |-> noEOF(h.err), off |-> h.off]
    ELSE LET cmf == limit.data[1]
             flg == limit.data[2]
         IN  IF cmf % 16 # 8 \/ cmf \div 16 > 7 \/ (cmf * 256 + flg) % 31 # 0
             THEN [err |-> "zlib.ErrHeader", off |-> 2]
             ELSE IF (flg \div 32) % 2 = 1
             THEN LET d == readFull(limit, 2, 4) IN
                  IF d.err # "nil" THEN [err |-> noEOF(d.err), off |-> d.off]
                  ELSE IF SubSeq(limit.data, 3, 6) # Adler32(<<>>)
                       THEN [err |-> "zlib.ErrDictionary", off |-> 6]
                       ELSE [err |-> "nil", off |-> 6]
             ELSE [err |-> "nil", off |-> 2]

\* flate decompressor: nextBlock / dataBlock / copyData / finishBlock
RECURSIVE inflate(_, _, _)
inflate(limit, off, out) ==
    IF off >= Len(limit.data)
    THEN [data |-> out, err |-> noEOF(limit.end), off |-> off]
    ELSE LET hd == limit.data[off + 1]
             final == hd % 2 = 1
             typ == (hd \div 2) % 4
             h == readFull(limit, off + 1, 4)
         IN
         IF typ = 3
         THEN [data |-> out, err |-> "flate.CorruptInputError", off |-> off + 1]
         ELSE IF typ # 0
         THEN [data |-> out, err |-> "flate.unmodelled", off |-> off + 1]
         ELSE IF h.err # "nil"
         THEN [data |-> out, err |-> noEOF(h.err), off |-> h.off]
         ELSE LET n == limit.data[off + 2] + 256 * limit.data[off + 3]
                  nn == limit.data[off + 4] + 256 * limit.data[off + 5]
                  c == readFull(limit, h.off, n)
                  got == SubSeq(limit.data, h.off + 1, c.off)
              IN
              IF nn # 65535 - n
              THEN [data |-> out, err |-> "flate.CorruptInputError", off |-> h.off]
              ELSE IF c.err # "nil"
              THEN [data |-> out \o got, err |-> noEOF(c.err), off |-> c.off]
              ELSE IF final
              THEN [data |-> out \o got, err |-> "EOF", off |-> c.off]
              ELSE IF n = 0 /\ out # <<>>
              THEN [data |-> out, err |-> "flate.unmodelled", off |-> c.off]
              ELSE inflate(limit, c.off, out \o got)

\* The end of the zlib stream: after the decompressor's io.EOF the Adler-32
\* trailer is read and compared.  The result is the opened reader as a
\* source: its output, the error that ends it (io.EOF only if the trailer
\* matches), the decompressor's own final error, and how much of `limit` it
\* needs for that.
zlibTrailer(limit, f) ==
    LET sum == readFull(limit, f.off, 4)
        zend == IF f.err # "EOF" THEN f.err
                ELSE IF sum.err # "nil" THEN noEOF(sum.err)
                ELSE IF SubSeq(limit.data, f.off + 1, f.off + 4) # Adler32(f.data)
                     THEN "zlib.ErrChecksum"
                     ELSE "EOF"
    IN  [err |-> "nil", data |-> f.data, end |-> zend, ferr |-> f.err,
         foff |-> f.off, soff |-> IF f.err = "EOF" THEN sum.off ELSE f.off]

\* zlib.NewReader(limit) and the reads through it
zlibReader(limit) ==
    LET h == zlibNewReader(limit) IN
    IF h.err # "nil"
    THEN [err |-> h.err, data |-> <<>>, end |-> h.err, ferr |-> h.err,
          foff |-> h.off, soff |-> h.off]
    ELSE zlibTrailer(limit, inflate(limit, h.off, <<>>))

\* bytes of `limit` the zlib reader has taken at least, once its output has
\* been read up to offset roff
zlibNeed(z, roff) == IF roff >= Len(z.data) THEN z.soff ELSE z.foff

\* zlib reader Close(): the sticky read error if the output was read to its
\* end, else the decompressor's error
zlibClose(z, roff) ==
    IF z.ferr # "EOF" THEN z.ferr
    ELSE IF roff >= Len(z.data) /\ z.end # "EOF" THEN z.end
    ELSE "nil"

----------------------------------------------------------------------------
(* Go slices of events and the decode buffer.                              *)

NilSlice == [nil |-> TRUE, elems |-> <<>>, cap |-> 0]

\* MakeSlice with one slot too few (C4_AllOrNothing depends on the capacity)
MakeSliceShort(count) == [nil |-> FALSE, elems |-> <<>>, cap |-> count - 1]

\* make([]json.RawMessage, 0, count)
MakeSlice(count) == [nil |-> FALSE, elems |-> <<>>, cap |-> count]

\* AppendSlice putting the new event first (C1_WireOrder depends on the order)
AppendSliceFront(events, event) ==
    [nil |-> FALSE,
     elems |-> <<event>> \o events.elems,
     cap |-> IF Len(events.elems) + 1 > events.cap
             THEN Len(events.elems) + 1 ELSE events.cap]

\* append(events, event)
AppendSlice(events, event) ==
    [nil |-> FALSE,
     elems |-> Append(events.elems, event),
     cap |-> IF Len(events.elems) + 1 > events.cap
             THEN Len(events.elems) + 1 ELSE events.cap]

\* r.buf: its length and its leading bytes; bytes beyond `head` are zero
MakeBuf(n) == [len |-> n, head |-> <<>>]

\* copy of bytes w into buf[0:Len(w)]
WriteBuf(b, w) == [len |-> b.len, head |-> w \o Drop(b.head, Len(w))]

RECURSIVE Zeros(_)
Zeros(n) == IF n <= 0 THEN <<>> ELSE <<0>> \o Zeros(n - 1)

\* append([]byte(nil), buf[:n]...)
CopyBuf(b, n) ==
    IF n <= Len(b.head) THEN SubSeq(b.head, 1, n)
    ELSE b.head \o Zeros(n - Len(b.head))

----------------------------------------------------------------------------------------------------------------------------------------
(* The reader.  `r` is the receiver: r.buf is the decode buffer and r.dl   *)
(* the read deadline of r.conn.  The other fields only record, for         *)
(* reference, what the current call has done: r.depth the nesting depth,   *)
(* r.seen the frame headers read, r.ops the deadline operations and read   *)
(* attempts in program order, r.zframes the compressed frames that were    *)
(* read up to the drain of their trailing bytes, r.jframes the data frames *)
(* whose sub-header was read.  Each operator returns the error, the        *)
(* events, the reader and the offset reached in its source (`lo` is the    *)
(* least offset the source may have been read to when a read-ahead makes   *)
(* it indeterminate).                                                      *)

\* newReader
NewReader ==
    [buf |-> MakeBuf(0), dl |-> "none", depth |-> 0, seen |-> <<>>, ops |-> <<>>,
     zframes |-> <<>>, jframes |-> <<>>]

Fail(err, lo, off, r) ==
    [events |-> NilSlice, err |-> err, lo |-> lo, off |-> off, r |-> r]

\* growBuf that always allocates a buffer of the payload's size
\* (C18_BufferAndCopies depends on the test of the length)
growBufExact(b, payloadSz) == MakeBuf(payloadSz)

\* if payloadSz > len(r.buf) { r.buf = make([]byte, payloadSz) }
growBuf(b, payloadSz) == IF payloadSz > b.len THEN MakeBuf(payloadSz) ELSE b

readJSONEvent(in, off, r) ==
    LET hdr == readFull(in, off, 8) IN
    IF hdr.err # "nil"
    THEN [event |-> <<>>, err |-> hdr.err, off |-> hdr.off, r |-> r]
    ELSE LET payloadSz == Uint32(in.data, off + 4)
             b1 == growBuf(r.buf, payloadSz)
             rd == readFull(in, hdr.off, payloadSz)
             b2 == WriteBuf(b1, SubSeq(in.data, hdr.off + 1, rd.off))
             r2 == [r EXCEPT !.buf = b2,
                             !.jframes = Append(@,
                                 [before |-> r.buf.len, after |-> b2.len,
                                  payloadSz |-> payloadSz,
                                  got |-> SubSeq(in.data, hdr.off + 1, rd.off)])]
         IN  IF rd.err # "nil"
             THEN [event |-> <<>>, err |-> rd.err, off |-> rd.off, r |-> r2]
             ELSE [event |-> CopyBuf(b2, payloadSz), err |-> "nil",
                   off |-> rd.off, r |-> r2]

\* frameKind without the version test (C8_BadFrameHeader depends on it)
frameKindAnyVersion(version, type) ==
    IF type = CodeJSONDataFrame THEN "json"
    ELSE IF type = CodeCompressed THEN "compressed"
    ELSE "unknown"

\* what readEvents does with a 2-byte frame header
frameKind(version, type) ==
    IF version # CodeVersion THEN "version"
    ELSE IF type = CodeJSONDataFrame THEN "json"
    ELSE IF type = CodeCompressed THEN "compressed"
    ELSE "unknown"

\* LimitReader one byte short (C3_CompressedSameAsPlain depends on the limit)
LimitReaderShort(in, off, n) ==
    LET have == Min(n - 1, Len(in.data) - off)
    IN  [data |-> SubSeq(in.data, off + 1, off + have),
         end |-> IF have = n - 1 THEN "EOF" ELSE in.end, n |-> n]

\* io.LimitReader(in, n) from offset off of `in`: at most n bytes of it, then
\* io.EOF; the error of `in` if that ends first (limit.n is the N it was
\* made with)
LimitReader(in, off, n) ==
    LET have == Min(n, Len(in.data) - off)
    IN  [data |-> SubSeq(in.data, off + 1, off + have),
         end |-> IF have = n THEN "EOF" ELSE in.end, n |-> n]

RECURSIVE readEvents(_, _, _, _)
RECURSIVE readCompressed(_, _, _, _)

\* readEvents after readJSONEvent returned e: append and go on
appendEvent(in, events, e) ==
    IF e.err # "nil" THEN Fail(e.err, e.off, e.off, e.r)
    ELSE readEvents(in, e.off, AppendSlice(events, e.event), e.r)

\* readEvents after readCompressed returned c: take its events and go on
takeEvents(in, c) ==
    IF c.err # "nil" THEN Fail(c.err, c.lo, c.off, c.r)
    ELSE readEvents(in, c.off, c.events, c.r)

\* readEvents on a frame header of the given kind, read up to offset off
dispatch(in, off, events, r, kind) ==
    IF kind = "version" THEN Fail("ErrProtocolError", off, off, r)
    ELSE IF kind = "json" THEN appendEvent(in, events, readJSONEvent(in, off, r))
    ELSE IF kind = "compressed" THEN takeEvents(in, readCompressed(in, off, events, r))
    ELSE Fail("ErrProtocolError", off, off, r)

readEvents(in, off, events, r) ==
    IF ~(Len(events.elems) < events.cap)
    THEN [events |-> events, err |-> "nil", lo |-> off, off |-> off, r |-> r]
    ELSE LET hdr == readFull(in, off, 2)
             r1 == [r EXCEPT !.ops = Append(@, "frame")]
         IN
         IF hdr.err # "nil" THEN Fail(hdr.err, hdr.off, hdr.off, r1)
         ELSE dispatch(in, hdr.off, events,
                       [r1 EXCEPT !.seen = Append(@,
                            [version |-> in.data[off + 1], type |-> in.data[off + 2],
                             depth |-> r.depth, collected |-> Len(events.elems),
                             off |-> off])],
                       frameKind(in.data[off + 1], in.data[off + 2]))

\* DrainChunk: the tmp buffer of the drain loop
DrainChunk == 16

\* a drain loop that does not break on io.EOF: it spins, and the call never
\* returns (C19_Terminates depends on the break)
drainForever(limit, loff, reads) ==
    [err |-> "block", off |-> Len(limit.data), reads |-> reads]

\* consume final bytes from limit reader: limit.Read(tmp[:]) from offset loff
\* of limit until it returns an error; `reads` are the byte counts of the
\* Read calls made (each Read is taken to fill tmp when it can)
RECURSIVE drain(_, _, _)
drain(limit, loff, reads) ==
    IF loff < Len(limit.data)
    THEN drain(limit, Min(loff + DrainChunk, Len(limit.data)),
               Append(reads, Min(DrainChunk, Len(limit.data) - loff)))
    ELSE [err |-> limit.end, off |-> loff, reads |-> Append(reads, 0)]

\* readCompressed after the drain loop ended as d says
drained(off, limit, events, r, d) ==
    LET r3 == [r EXCEPT !.zframes = Append(@,
                   [depth |-> r.depth, declared |-> limit.n,
                    consumed |-> 4 + d.off, reads |-> d.reads, err |-> d.err])]
    IN  IF d.err # "EOF" THEN Fail(d.err, off + d.off, off + d.off, r3)
        ELSE [events |-> events, err |-> "nil", lo |-> off + d.off,
              off |-> off + d.off, r |-> r3]

\* readCompressed after the events of the sub-stream were read: Close, then
\* consume final bytes from limit reader
closeAndDrain(off, limit, reader, r, sub) ==
    LET all == off + Len(limit.data)
        r2 == [sub.r EXCEPT !.depth = r.depth]
        need == off + zlibNeed(reader, sub.lo)
        closeErr == zlibClose(reader, sub.off)
    IN  IF sub.err # "nil" THEN Fail(sub.err, need, all, r2)
        ELSE IF closeErr # "nil" THEN Fail(closeErr, need, all, r2)
        ELSE drained(off, limit, sub.events, r2,
                     drain(limit, zlibNeed(reader, sub.lo), <<>>))

\* readCompressed once the zlib reader is opened on limit
readSubStream(off, limit, reader, events, r) ==
    IF reader.err # "nil"
    THEN Fail(reader.err, off + reader.soff, off + Len(limit.data), r)
    ELSE closeAndDrain(off, limit, reader, r,
                       readEvents(Source(reader.data, reader.end), 0, events,
                                  [r EXCEPT !.depth = @ + 1]))

\* readCompressed once the limit reader is set up
decompress(off, limit, events, r) ==
    readSubStream(off, limit, zlibReader(limit), events, r)

readCompressed(in, off, events, r) ==
    LET hdr == readFull(in, off, 4) IN
    IF hdr.err # "nil" THEN Fail(hdr.err, hdr.off, hdr.off, r)
    ELSE decompress(hdr.off, LimitReader(in, hdr.off, Uint32(in.data, off)),
                    events, r)

----------------
(* The peer: how frames are put on the wire.                               *)

WindowFrame(v, t, count) == <<v, t>> \o PutUint32(count)

DataFrame(seqNo, payload) ==
    <<CodeVersion, CodeJSONDataFrame>> \o PutUint32(seqNo)
        \o PutUint32(Len(payload)) \o payload

\* one deflate stored block
StoredBlock(d, final) ==
    << IF final THEN 1 ELSE 0, Len(d) % 256, Len(d) \div 256,
       255 - (Len(d) % 256), 255 - (Len(d) \div 256) >> \o d

\* a zlib stream of stored blocks; `flaw` damages it in one place
ZlibStream(d, flaw) ==
    LET h == IF flaw = "hdr" THEN <<120, 2>> ELSE <<120, 1>>
        half == Len(d) \div 2
        blocks == IF flaw = "two" /\ half > 0
                  THEN StoredBlock(SubSeq(d, 1, half), FALSE)
                           \o StoredBlock(Drop(d, half), TRUE)
                  ELSE IF flaw = "nlen"
                  THEN <<1, Len(d) % 256, Len(d) \div 256, 0, 0>> \o d
                  ELSE IF flaw = "open"
                  THEN StoredBlock(d, FALSE)
                  ELSE StoredBlock(d, TRUE)
        sum == IF flaw = "sum"
               THEN [Adler32(d) EXCEPT ![4] = (@ + 1) % 256]
               ELSE IF flaw = "open" THEN <<>>
               ELSE Adler32(d)
    IN  h \o blocks \o sum

CompressedFrame(z) ==
    <<CodeVersion, CodeCompressed>> \o PutUint32(Len(z)) \o z

\* Script items: a data frame J, a compressed frame C of nested items with
\* trailing pad bytes, or a bare 2-byte frame header X.
J(p) == [t |-> "J", p |-> p, in |-> <<>>, pad |-> 0, flaw |-> "none"]
C(in, pad, flaw) == [t |-> "C", p |-> <<>>, in |-> in, pad |-> pad, flaw |-> flaw]
X(v, ty) == [t |-> "X", p |-> <<v, ty>>, in |-> <<>>, pad |-> 0, flaw |-> "none"]

RECURSIVE Encode(_)
RECURSIVE EncodeSeq(_)
Encode(it) ==
    IF it.t = "J" THEN DataFrame(0, it.p)
    ELSE IF it.t = "X" THEN it.p
    ELSE CompressedFrame(ZlibStream(EncodeSeq(it.in), it.flaw) \o Zeros(it.pad))
EncodeSeq(s) == IF s = <<>> THEN <<>> ELSE Encode(Head(s)) \o EncodeSeq(Tail(s))

\* the payloads of the data frames of a script, in wire order
RECURSIVE Payloads(_)
Payloads(s) ==
    IF s = <<>> THEN <<>>
    ELSE LET it == Head(s) IN
         (IF it.t = "J" THEN <<it.p>>
          ELSE IF it.t = "C" THEN Payloads(it.in) ELSE <<>>) \o Payloads(Tail(s))

Window(v, t, count, body) == [v |-> v, t |-> t, count |-> count, body |-> body]

EncodeWindow(w) == WindowFrame(w.v, w.t, w.count) \o EncodeSeq(w.body)

RECURSIVE EncodeStream(_)
EncodeStream(ws) ==
    IF ws = <<>> THEN <<>> ELSE EncodeWindow(Head(ws)) \o EncodeStream(Tail(ws))

----------------------------------------------------------------------------
(* The streams the peer may send.                                          *)

SeqsUpTo(S, n) == UNION { [1..k -> S] : k \in 0..n }

PayloadSet == { [j \in 1..n |-> 96 + n] : n \in 0..MaxPayloadLen }

\* payload of the i-th data frame of a relabelled script
PayloadAt(pal, i) ==
    [j \in 1..(IF pal = "asc" THEN (i - 1) % (MaxPayloadLen + 1)
               ELSE (MaxPayloadLen + 1 - i) % (MaxPayloadLen + 1)) |-> 96 + i]

\* gives the data frames of a script distinct payloads, in wire order
RECURSIVE Relabel(_, _, _)
Relabel(s, i, pal) ==
    IF s = <<>> THEN [s |-> <<>>, i |-> i]
    ELSE LET it == Head(s)
             hd == IF it.t = "J" THEN [s |-> <<J(PayloadAt(pal, i))>>, i |-> i + 1]
                   ELSE IF it.t = "X" THEN [s |-> <<it>>, i |-> i]
                   ELSE LET r == Relabel(it.in, i, pal)
                        IN  [s |-> <<C(r.s, it.pad, it.flaw)>>, i |-> r.i]
             tl == Relabel(Tail(s), hd.i, pal)
         IN  [s |-> hd.s \o tl.s, i |-> tl.i]

Leaf == J(<<>>)

\* bodies of data frames only, every payload combination
Plain == SeqsUpTo({ J(p) : p \in PayloadSet }, MaxCount + 1)

Inner == { [i \in 1..k |-> Leaf] : k \in 0..MaxCount }

Flaws == {"none", "two", "sum", "hdr", "nlen", "open"}

ZClean == { C(s, 0, "none") : s \in Inner }

\* data frames and well-formed compressed frames in any order
Mixed == SeqsUpTo({Leaf} \cup ZClean, MaxItems)

ZAny == { C(s, pad, flaw) : s \in Inner, pad \in 0..MaxPad, flaw \in Flaws }

\* one compressed frame, possibly damaged or padded, alone or beside a data frame
Damaged == UNION { { <<z>>, <<Leaf, z>>, <<z, Leaf>> } : z \in ZAny }

ZInner == { C(s, pad, flaw) : s \in Inner, pad \in {0, MaxPad}, flaw \in {"none", "sum"} }

\* a compressed frame inside a compressed frame
Nested ==
    UNION { { <<C(<<z>>, 0, "none")>>, <<C(<<Leaf, z>>, 0, "none")>>,
              <<C(<<z, Leaf>>, 0, "none")>>, <<C(<<z>>, 0, "none"), Leaf>>,
              <<C(<<z>>, MaxPad, "none"), Leaf>> } : z \in ZInner }

\* a compressed frame with more trailing bytes than one Read of the drain
\* loop takes, at the top level and nested
LongPadded ==
    { <<C(<<Leaf>>, DrainChunk + MaxPad, "none")>>,
      <<C(<<C(<<Leaf>>, DrainChunk + MaxPad, "none")>>, 0, "none")>> }

BadHeaders == { X(CodeVersion - 1, CodeJSONDataFrame), X(CodeVersion - 1, CodeCompressed),
                X(CodeVersion, CodeWindowSize), X(CodeVersion - 1, CodeWindowSize) }

\* a frame header of the wrong version or type, at the top level or inside
\* a compressed frame, before or after valid events
BadFrames ==
    UNION { { <<x>>, <<Leaf, x>>, <<x, Leaf>>,
              <<C(<<x>>, 0, "none")>>, <<C(<<Leaf, x>>, 0, "none")>>,
              <<Leaf, C(<<x>>, 0, "none")>>, <<Leaf, C(<<Leaf, x>>, 0, "none")>>,
              <<C(<<C(<<x>>, 0, "none")>>, 0, "none")>>,
              <<C(<<Leaf, C(<<x>>, 0, "none")>>, 0, "none")>> } : x \in BadHeaders }

Palettes == {"asc", "desc"}

Shaped(F) == { Relabel(b, 1, pal).s : b \in F, pal \in Palettes }

GoodWindow(count, body) == Window(CodeVersion, CodeWindowSize, count, body)

Heartbeat == GoodWindow(0, <<>>)

\* what may follow the first window on the wire
Followers == { <<>>, <<Heartbeat>>, <<GoodWindow(1, <<J(<<120>>)>>)>> }

\* windows whose header is wrong in the version byte, the type byte or both
BadWindows ==
    { Window(v, t, count, [i \in 1..count |-> J(<<97>>)]) :
        v \in {CodeVersion, CodeVersion - 1},
        t \in {CodeWindowSize, CodeJSONDataFrame},
        count \in 0..MaxCount }

\* streams that are delivered whole
WholeStreams ==
    { <<GoodWindow(count, b)>> \o f :
        count \in 1..MaxCount, b \in Plain \cup Shaped(Mixed), f \in Followers }
    \cup { <<GoodWindow(count, b)>> :
        count \in 1..MaxCount,
        b \in Shaped(Damaged) \cup Shaped(Nested) \cup Shaped(BadFrames)
              \cup Shaped(LongPadded) }
    \cup { <<w>> \o f : w \in BadWindows, f \in Followers }

\* streams that are also delivered cut short at any byte
CutStreams ==
    { <<GoodWindow(count, b)>> :
        count \in 1..MaxCount,
        b \in { c \in Plain : Len(c) <= MaxCount }
              \cup Shaped({ <<z>> : z \in ZAny })
              \cup Shaped({ <<C(<<z>>, 0, "none")>> : z \in ZInner }) }
    \cup { <<Heartbeat>> }

EndKinds == {"eof", "reset", "stall", "closed"}

PlainTCP == [isTLS |-> FALSE, chains |-> <<>>]

\* tls.ConnectionState().VerifiedChains, certificates named by numbers
TLSShapes ==
    { PlainTCP } \cup
    { [isTLS |-> TRUE, chains |-> c] :
        c \in { <<>>, << <<1, 2>> >>, << <<1>> >>, << <<1, 2, 3>> >>,
                << <<1, 2>>, <<3, 4>> >> } }

----------------------------------------------------------------------------
(* lj.Batch                                                                *)

\* NewBatch with a channel that is already closed (C9_AwaitAfterACK depends on
\* the channel being created open)
NewBatchClosed(evts, clientX509Cert) ==
    [Events |-> evts, ack |-> "closed", ClientX509Cert |-> clientX509Cert]

\* lj.NewBatch: the ack channel is created open
NewBatch(evts, clientX509Cert) ==
    [Events |-> evts, ack |-> "open", ClientX509Cert |-> clientX509Cert]

\* an ACK that leaves the channel open, as a send without a receiver would
\* (C11_EveryObserverCompletes depends on the close)
closeChanLeftOpen(ch) == [ch |-> ch, panic |-> FALSE]

\* closing that tolerates a closed channel (C10_AckOnce depends on the panic)
closeChanQuiet(ch) == [ch |-> "closed", panic |-> FALSE]

\* close(b.ack): closing a closed channel panics and leaves it closed
closeChan(ch) ==
    IF ch = "open" THEN [ch |-> "closed", panic |-> FALSE]
    ELSE [ch |-> ch, panic |-> TRUE]

\* a receive from b.Await() completes only on a closed channel (nothing is
\* ever sent on it)
recvReady(ch) == ch = "closed"

----------------------------------------------------------------------------------------------------------------------------------------
(* reader.ReadBatch                                                        *)

NoCert == 0

NoBatch == 0

\* what the connection does when a read finds no byte left
ConnEnd(kind, dl) ==
    CASE kind = "eof" -> "EOF"
      [] kind = "reset" -> "ECONNRESET"
      [] kind = "closed" -> "ErrNetClosing"
      [] kind = "stall" -> IF dl = "armed" THEN "timeout" ELSE "block"

\* r.conn.SetReadDeadline fails on a connection closed locally
SetReadDeadline(kind) == IF kind = "closed" THEN "ErrNetClosing" ELSE "nil"

\* the test of the window frame's first two bytes
windowMismatch(win) == win[1] # CodeVersion /\ win[2] # CodeWindowSize

\* clientCert that takes the first certificate of the first chain whatever the
\* number and length of the chains (C13_ClientCertificate depends on the test)
clientCertAnyShape(conn) ==
    IF conn.isTLS /\ Len(conn.chains) >= 1 /\ Len(conn.chains[1]) >= 1
    THEN conn.chains[1][1]
    ELSE NoCert

\* the certificate attached to a Batch
clientCert(conn) ==
    IF conn.isTLS /\ Len(conn.chains) = 1 /\ Len(conn.chains[1]) = 2
    THEN conn.chains[1][1]
    ELSE NoCert

Outcome(batch, hasBatch, err, lo, off, r, dl) ==
    [batch |-> batch, hasBatch |-> hasBatch, err |-> err, lo |-> lo,
     off |-> off, r |-> r, deadline |-> dl]

\* ReturnHeartbeat as if the deadline were set before the count is tested
\* (C5_Heartbeat depends on the order)
ReturnHeartbeatArmed(r) ==
    [batch |-> [Events |-> <<>>, ack |-> "open", ClientX509Cert |-> 0],
     hasBatch |-> FALSE, err |-> "nil", lo |-> 6, off |-> 6, r |-> r,
     deadline |-> "armed"]

\* return nil, nil on a window of count 0: nothing but the window frame is
\* read and no deadline is set
ReturnHeartbeat(r) ==
    Outcome(NewBatch(<<>>, NoCert), FALSE, "nil", 6, 6, r, r.dl)

\* ReadBatch after readEvents returned e: the Batch, or the failure
finishBatch(conn, e) ==
    IF e.events.nil \/ e.err # "nil"
    THEN Outcome(NewBatch(<<>>, NoCert), FALSE, e.err, e.lo, e.off, e.r, e.r.dl)
    ELSE Outcome(NewBatch(e.events.elems, clientCert(conn)), TRUE, "nil",
                 e.lo, e.off, e.r, e.r.dl)

\* a call that leaves the deadline of the previous call in force
\* (C14_OneDeadlinePerBatch depends on the clearing)
clearDeadlineSkipped(r) == r

\* r.conn.SetReadDeadline(time.Time{}): wait for next batch without timeout
clearDeadline(r) == [r EXCEPT !.dl = "none", !.ops = Append(@, "clear")]

\* r.conn.SetReadDeadline(time.Now().Add(r.timeout))
armDeadline(kind, r) ==
    [r EXCEPT !.dl = IF SetReadDeadline(kind) = "nil" THEN "armed" ELSE @,
              !.ops = Append(@, "set")]

\* ReadBatch once the deadline is set for a window of `count` events
readBody(data, kind, conn, count, r) ==
    IF SetReadDeadline(kind) # "nil"
    THEN Outcome(NewBatch(<<>>, NoCert), FALSE, SetReadDeadline(kind), 6, 6, r, r.dl)
    ELSE finishBatch(conn,
                     readEvents(Source(data, ConnEnd(kind, r.dl)), 6,
                                MakeSlice(count), r))

\* ReadBatch from the read of the window frame on
readWindow(data, kind, conn, r) ==
    LET win == readFull(Source(data, ConnEnd(kind, r.dl)), 0, 6)
        none == NewBatch(<<>>, NoCert)
        r1 == [r EXCEPT !.ops = Append(@, "window")]
    IN
    IF win.err # "nil"
    THEN Outcome(none, FALSE, win.err, win.off, win.off, r1, r1.dl)
    ELSE IF windowMismatch(data)
    THEN Outcome(none, FALSE, "ErrProtocolError", 6, 6, r1, r1.dl)
    ELSE IF Uint32(data, 2) = 0
    THEN ReturnHeartbeat(r1)
    ELSE readBody(data, kind, conn, Uint32(data, 2), armDeadline(kind, r1))

\* one call of ReadBatch by reader r on a connection that still delivers
\* the bytes `data`, ends as `kind` says and has the TLS state `conn`
ReadBatchCall(data, kind, conn, r) ==
    readWindow(data, kind, conn, clearDeadline(r))

\* the state after a ReadBatch call with outcome res
Return(res) ==
    /\ \E p \in (pos + res.lo)..(pos + res.off) : pos' = p
    /\ buf' = res.r.buf
    /\ deadline' = res.deadline
    /\ batches' = IF res.hasBatch THEN Append(batches, res.batch) ELSE batches
    /\ ackCalls' = IF res.hasBatch THEN Append(ackCalls, 0) ELSE ackCalls
    /\ ret' = IF res.err = "block"
              THEN [state |-> "blocked", batch |-> NoBatch, err |-> "nil",
                    start |-> pos, seen |-> res.r.seen, ops |-> res.r.ops,
                    zframes |-> res.r.zframes, jframes |-> res.r.jframes]
              ELSE [state |-> "returned",
                    batch |-> IF res.hasBatch THEN Len(batches) + 1 ELSE NoBatch,
                    err |-> res.err, start |-> pos, seen |-> res.r.seen,
                    ops |-> res.r.ops, zframes |-> res.r.zframes,
                    jframes |-> res.r.jframes]

ReadBatch ==
    /\ ~panicked
    /\ calls < MaxCalls
    /\ ret.state # "blocked"
    /\ Return(ReadBatchCall(Drop(wire, pos), endKind, tls,
                            [NewReader EXCEPT !.buf = buf, !.dl = deadline]))
    /\ calls' = calls + 1
    /\ UNCHANGED <<wire, endKind, tls, obs, panicked, script>>

\* b.ACK()
ACK(b) ==
    /\ ~panicked
    /\ b \in 1..Len(batches)
    /\ LET c == closeChan(batches[b].ack) IN
       /\ batches' = [batches EXCEPT ![b].ack = c.ch]
       /\ panicked' = c.panic
    /\ ackCalls' = [ackCalls EXCEPT ![b] = @ + 1]
    /\ UNCHANGED <<wire, endKind, tls, pos, buf, deadline, ret, calls, obs, script>>

\* observer o calls b.Await() and starts receiving from the channel
Await(o, b) ==
    /\ ~panicked
    /\ b \in 1..Len(batches)
    /\ obs[o].state = "idle"
    /\ obs' = [obs EXCEPT ![o] = [state |-> "waiting", batch |-> b,
                                  early |-> ~recvReady(batches[b].ack)]]
    /\ UNCHANGED <<wire, endKind, tls, pos, buf, deadline, batches, ret, calls,
                   ackCalls, panicked, script>>

\* observer o's receive from the channel completes
Observe(o) ==
    /\ ~panicked
    /\ obs[o].state = "waiting"
    /\ recvReady(batches[obs[o].batch].ack)
    /\ obs' = [obs EXCEPT ![o].state = "done"]
    /\ UNCHANGED <<wire, endKind, tls, pos, buf, deadline, batches, ret, calls,
                   ackCalls, panicked, script>>

----------------------------------------------------------------------------
(* Specifications.                                                         *)

\* newReader and everything no call has touched yet
Fresh ==
    /\ pos = 0
    /\ buf = NewReader.buf
    /\ deadline = "none"
    /\ batches = <<>>
    /\ ret = [state |-> "none", batch |-> NoBatch, err |-> "nil", start |-> 0,
              seen |-> <<>>, ops |-> <<>>, zframes |-> <<>>, jframes |-> <<>>]
    /\ calls = 0
    /\ obs = [o \in 1..MaxObservers |->
                [state |-> "idle", batch |-> NoBatch, early |-> FALSE]]
    /\ ackCalls = <<>>
    /\ panicked = FALSE

\* the reader on every stream of the families above
InitReader ==
    /\ \E st \in WholeStreams \cup CutStreams :
         LET w == EncodeStream(st) IN
         /\ script = st
         /\ \E n \in (IF st \in CutStreams THEN 0..Len(w) ELSE {Len(w)}) :
              wire = Take(w, n)
    /\ endKind \in EndKinds
    /\ tls = PlainTCP
    /\ Fresh

SpecReader == InitReader /\ [][ReadBatch]_vars

\* windows a well-behaved peer sends one after the other
SimpleWindows ==
    { Heartbeat,
      GoodWindow(1, <<J(<<97>>)>>),
      GoodWindow(2, <<J(<<97>>), J(<<98, 99>>)>>),
      GoodWindow(1, <<C(<<J(<<100>>)>>, 0, "none")>>) }

\* the reader on every shape of connection
InitTLS ==
    /\ script \in SeqsUpTo(SimpleWindows, MaxCalls)
    /\ wire = EncodeStream(script)
    /\ endKind \in {"eof", "stall"}
    /\ tls \in TLSShapes
    /\ Fresh

SpecTLS == InitTLS /\ [][ReadBatch]_vars

\* a TLS connection whose client presented one verified chain of two
\* certificates
VerifiedClient == [isTLS |-> TRUE, chains |-> << <<1, 2>> >>]

\* the reader, the Batches it returns and their observers
Init ==
    /\ script \in SeqsUpTo(SimpleWindows, MaxCalls)
    /\ wire = EncodeStream(script)
    /\ endKind \in {"eof", "stall"}
    /\ tls \in {PlainTCP, VerifiedClient}
    /\ Fresh

Next ==
    \/ ReadBatch
    \/ \E b \in 1..MaxCalls : ACK(b)
    \/ \E o \in 1..MaxObservers, b \in 1..MaxCalls : Await(o, b)
    \/ \E o \in 1..MaxObservers : Observe(o)

Spec == Init /\ [][Next]_vars

\* The Batch and its observers under the Go scheduler: a goroutine whose
\* receive can complete is eventually run.  The reader's side is kept small.
LiveWindows == { Heartbeat, GoodWindow(1, <<J(<<97>>)>>) }

InitLive ==
    /\ script \in SeqsUpTo(LiveWindows, MaxCalls)
    /\ wire = EncodeStream(script)
    /\ endKind = "eof"
    /\ tls = PlainTCP
    /\ Fresh

SpecLive ==
    InitLive /\ [][Next]_vars /\ \A o \in 1..MaxObservers : WF_vars(Observe(o))

----------------------------------------------------------------------------
(* Properties.  They speak of the last ReadBatch call: the window frame is *)
(* the 6 bytes of the wire at ret.start.                                   *)

Returned == ret.state = "returned"

GotBatch == Returned /\ ret.batch # NoBatch /\ ret.err = "nil"

GotHeartbeat == Returned /\ ret.batch = NoBatch /\ ret.err = "nil"

GotError == Returned /\ ret.batch = NoBatch /\ ret.err # "nil"

\* the call read a whole window frame
ReadWindow == Returned /\ Len(wire) >= ret.start + 6

WinVersion == wire[ret.start + 1]

WinType == wire[ret.start + 2]

WinCount == Uint32(wire, ret.start + 2)

\* the last call was the first one, on a stream whose first window is a valid
\* window frame of count > 0 with body b, all of it delivered by a healthy
\* connection
FirstWindowIs(b) ==
    /\ Returned
    /\ calls = 1
    /\ script # <<>>
    /\ script[1] = GoodWindow(script[1].count, b)
    /\ script[1].count > 0
    /\ Len(wire) >= Len(EncodeWindow(script[1]))
    /\ endKind # "closed"

AllData(b) == \A i \in 1..Len(b) : b[i].t = "J"

\* data frames and well-formed compressed frames only, at every depth
RECURSIVE WellFormed(_)
WellFormed(b) ==
    \A i \in 1..Len(b) :
        \/ b[i].t = "J"
        \/ b[i].t = "C" /\ b[i].flaw \in {"none", "two"} /\ WellFormed(b[i].in)

\* The decompressor model covers stored blocks; no stream of the model makes
\* it meet anything else.
ModelCoversStreams == ret.err # "flate.unmodelled"

\* C1: a valid window frame of count K > 0 followed by K valid data frames
\* makes ReadBatch return a Batch and no error, with exactly the K payloads of
\* the data frames in wire order.
C1_WireOrder ==
    (script # <<>> /\ FirstWindowIs(script[1].body) /\ AllData(script[1].body)
        /\ Len(script[1].body) = script[1].count)
    => /\ GotBatch
       /\ batches[ret.batch].Events =
            [i \in 1..script[1].count |-> script[1].body[i].p]

C1_Witness ==
    /\ script # <<>> /\ FirstWindowIs(script[1].body) /\ AllData(script[1].body)
    /\ script[1].count = 2 /\ Len(script[1].body) = 2
    /\ GotBatch
    /\ Len(batches[ret.batch].Events) = 2
    /\ batches[ret.batch].Events[1] # batches[ret.batch].Events[2]

\* C2: a window of count K whose body is any sequence of data frames and
\* compressed frames carrying exactly K events makes ReadBatch succeed with
\* exactly those K events in wire order.
C2_MixedAnyOrder ==
    (script # <<>> /\ FirstWindowIs(script[1].body) /\ WellFormed(script[1].body)
        /\ Len(Payloads(script[1].body)) = script[1].count)
    => /\ GotBatch
       /\ batches[ret.batch].Events = Payloads(script[1].body)

\* what does hold of mixed windows: when ReadBatch succeeds on one, the
\* events are those of the window, in wire order
C2_MixedWhenSuccessful ==
    (script # <<>> /\ FirstWindowIs(script[1].body) /\ WellFormed(script[1].body)
        /\ Len(Payloads(script[1].body)) = script[1].count /\ GotBatch)
    => batches[ret.batch].Events = Payloads(script[1].body)

\* C3: K payloads delivered inside one compressed frame of a window of count K
\* make ReadBatch return the same Events as the same payloads delivered as K
\* data frames.
C3_CompressedSameAsPlain ==
    (script # <<>> /\ Len(script[1].body) = 1 /\ FirstWindowIs(script[1].body)
        /\ WellFormed(script[1].body) /\ script[1].body[1].t = "C"
        /\ AllData(script[1].body[1].in)
        /\ Len(script[1].body[1].in) = script[1].count)
    => LET plain == ReadBatchCall(
                        EncodeWindow(GoodWindow(script[1].count, script[1].body[1].in)),
                        endKind, tls, NewReader)
       IN  /\ GotBatch
           /\ plain.hasBatch
           /\ batches[ret.batch].Events = plain.batch.Events

C3_Witness ==
    /\ script # <<>> /\ Len(script[1].body) = 1 /\ FirstWindowIs(script[1].body)
    /\ WellFormed(script[1].body) /\ script[1].body[1].t = "C"
    /\ AllData(script[1].body[1].in)
    /\ script[1].count = 2 /\ Len(script[1].body[1].in) = 2
    /\ GotBatch
    /\ Len(batches[ret.batch].Events) = 2
    /\ batches[ret.batch].Events[1] # batches[ret.batch].Events[2]

\* C4: a call that read a window of count K > 0 returns either a Batch of
\* exactly K events and no error, or no Batch and an error; never a Batch of
\* another size.
C4_AllOrNothing ==
    (ReadWindow /\ WinCount > 0)
    => \/ GotBatch /\ Len(batches[ret.batch].Events) = WinCount
       \/ GotError

\* a decompression failure after an event was already decoded
C4_Witness ==
    /\ ReadWindow /\ WinCount > 0
    /\ ret.err = "zlib.ErrChecksum"
    /\ \E i \in 1..Len(ret.seen) : ret.seen[i].collected > 0

\* C5: on a window frame of count 0 ReadBatch returns no Batch and no error,
\* leaves no read deadline set and consumes exactly the 6 bytes of the frame.
C5_Heartbeat ==
    (ReadWindow /\ WinVersion = CodeVersion /\ WinType = CodeWindowSize
        /\ WinCount = 0)
    => /\ GotHeartbeat
       /\ deadline = "none"
       /\ pos = ret.start + 6
       /\ ret.seen = <<>>

\* a heartbeat with more bytes behind it on the wire
C5_Witness ==
    /\ ReadWindow /\ WinVersion = CodeVersion /\ WinType = CodeWindowSize
    /\ WinCount = 0
    /\ GotHeartbeat
    /\ Len(wire) > ret.start + 6

\* C6: ReadBatch returns no Batch together with no error only when it read a
\* complete window frame of count 0.
C6_HeartbeatOnlyOnZeroWindow ==
    GotHeartbeat
    => /\ ReadWindow
       /\ WinVersion = CodeVersion
       /\ WinType = CodeWindowSize
       /\ WinCount = 0

\* C7: a 6-byte window frame whose version byte or whose type byte is wrong
\* (either alone) makes ReadBatch return a protocol error and no Batch.
C7_WindowHeaderChecked ==
    (ReadWindow /\ (WinVersion # CodeVersion \/ WinType # CodeWindowSize))
    => GotError /\ ret.err = "ErrProtocolError"

\* C8: a frame header read while the events of a window are collected, with a
\* wrong version byte or a type byte that is neither data frame nor compressed
\* frame, makes ReadBatch fail with a protocol error and return no Batch, at
\* the top level and inside decompressed sub-streams, whatever was collected.
C8_BadFrameHeader ==
    \A i \in 1..Len(ret.seen) :
        (ret.seen[i].version # CodeVersion
            \/ ret.seen[i].type \notin {CodeJSONDataFrame, CodeCompressed})
        => GotError /\ ret.err = "ErrProtocolError"

\* a bad version byte inside a compressed frame after an event was collected
C8_Witness ==
    \E i \in 1..Len(ret.seen) :
        /\ ret.seen[i].version # CodeVersion
        /\ ret.seen[i].depth > 0
        /\ ret.seen[i].collected > 0
        /\ GotError

\* C9: an observer of Await() has observed completion only if ACK() was called
\* on that same Batch; a Batch that was never ACKed has an open channel.
C9_AwaitAfterACK ==
    /\ \A o \in 1..MaxObservers :
          obs[o].state = "done" => ackCalls[obs[o].batch] >= 1
    /\ \A b \in 1..Len(batches) :
          ackCalls[b] = 0 => batches[b].ack = "open"

\* one Batch ACKed and observed, another one awaited and still open
C9_Witness ==
    \E o1, o2 \in 1..MaxObservers :
        /\ obs[o1].state = "done"
        /\ obs[o2].state = "waiting"
        /\ obs[o2].batch # obs[o1].batch
        /\ ackCalls[obs[o2].batch] = 0

\* C10: the first ACK() on a Batch closes its channel without a panic; every
\* later ACK() on it panics and leaves the channel as it is.
C10_AckOnce ==
    [][\A b \in 1..Len(batches) :
          (b <= Len(ackCalls) /\ ackCalls'[b] = ackCalls[b] + 1)
          => IF ackCalls[b] = 0
             THEN batches[b].ack = "open" /\ batches'[b].ack = "closed"
                  /\ ~panicked'
             ELSE panicked' /\ batches'[b].ack = batches[b].ack]_vars

\* a second ACK() happened
C10_Witness ==
    \E b \in 1..Len(batches) : ackCalls[b] = 2 /\ panicked

\* C11: once ACK() was called on a Batch, every observer waiting on its
\* Await() channel, whether it started waiting before or after the ACK(),
\* eventually observes completion (unless a second ACK() panicked and ended
\* the program), under every interleaving.
C11_EveryObserverCompletes ==
    \A o \in 1..MaxObservers :
        (obs[o].state = "waiting" /\ ackCalls[obs[o].batch] >= 1)
            ~> (obs[o].state = "done" \/ panicked)

\* two observers of one Batch, ACKed once: one waited before the ACK(), the
\* other came after it, and both have observed completion
C11_Witness ==
    \E o1, o2 \in 1..MaxObservers :
        /\ obs[o1].state = "done" /\ obs[o1].early
        /\ obs[o2].state = "done" /\ ~obs[o2].early
        /\ obs[o1].batch = obs[o2].batch
        /\ ackCalls[obs[o1].batch] = 1
        /\ ~panicked

\* the first call met a stalled peer after a valid window frame of count > 0
\* and a well-formed part of its body that holds fewer events than declared:
\* either all of a body that is short of events, or data frames cut short
StalledMidBatch ==
    /\ calls = 1
    /\ endKind = "stall"
    /\ script # <<>>
    /\ script[1] = GoodWindow(script[1].count, script[1].body)
    /\ script[1].count > 0
    /\ Len(wire) >= 6
    /\ WellFormed(script[1].body)
    /\ \/ /\ Len(script) = 1
          /\ Len(wire) = Len(EncodeStream(script))
          /\ Len(Payloads(script[1].body)) < script[1].count
       \/ /\ AllData(script[1].body)
          /\ Len(script[1].body) <= script[1].count
          /\ Len(wire) < Len(EncodeWindow(script[1]))

\* a call that started with less than a window frame left on a stalled
\* connection
StalledBeforeWindow ==
    /\ ret.state # "none"
    /\ endKind = "stall"
    /\ Len(wire) < ret.start + 6

\* C12: once a window of count > 0 was read, a peer that goes silent before
\* all declared events are received makes ReadBatch fail with a timeout error
\* and return no Batch; a peer that is silent before the window frame is
\* complete never makes ReadBatch fail: the call keeps waiting.
C12_TimeoutMidBatch ==
    /\ StalledMidBatch => (GotError /\ ret.err = "timeout")
    /\ StalledBeforeWindow => ret.state = "blocked"

\* the last call was made on the window script[calls], all of it delivered
OnWindow ==
    /\ ret.state # "none"
    /\ calls <= Len(script)
    /\ ret.start = Len(EncodeStream(SubSeq(script, 1, calls - 1)))

\* C13: a Batch carries a certificate if and only if the connection is a TLS
\* connection with exactly one verified chain of exactly two certificates, and
\* then it is the first certificate of that chain; every other shape of
\* connection gets its Batch all the same, without a certificate.
C13_ClientCertificate ==
    /\ \A b \in 1..Len(batches) :
          IF tls.isTLS /\ Len(tls.chains) = 1 /\ Len(tls.chains[1]) = 2
          THEN batches[b].ClientX509Cert = tls.chains[1][1]
               /\ batches[b].ClientX509Cert # NoCert
          ELSE batches[b].ClientX509Cert = NoCert
    /\ (OnWindow /\ script[calls].count > 0) => GotBatch

\* a Batch read from a TLS connection with one chain of two certificates
C13_Witness ==
    /\ GotBatch
    /\ tls.isTLS /\ Len(tls.chains) = 1 /\ Len(tls.chains[1]) = 2
    /\ batches[ret.batch].ClientX509Cert = tls.chains[1][1]
    /\ batches[ret.batch].Events # <<>>

\* C14: every ReadBatch call clears the read deadline before it reads the
\* window frame and sets it at most once: only after a window frame of count
\* > 0 was read, and before the first frame header is read.  No read of a data
\* frame or compressed frame, at any depth, sets or clears it again.
C14_OneDeadlinePerBatch ==
    ret.state # "none" =>
        /\ Len(ret.ops) >= 2
        /\ ret.ops[1] = "clear"
        /\ ret.ops[2] = "window"
        /\ \A i \in 3..Len(ret.ops) :
              ret.ops[i] = IF i = 3 THEN "set" ELSE "frame"
        /\ Len(ret.ops) >= 3 => (ReadWindow /\ WinCount > 0)
        /\ (ReadWindow /\ WinVersion = CodeVersion /\ WinType = CodeWindowSize
                /\ WinCount > 0) => Len(ret.ops) >= 3
        /\ ret.seen # <<>> => Len(ret.ops) >= 3 + Len(ret.seen)
        /\ deadline = IF Len(ret.ops) >= 3 /\ endKind # "closed"
                      THEN "armed" ELSE "none"

\* a second call that read its window and a data frame after a first call
\* that had set a deadline and read frames inside a compressed frame
C14_Witness ==
    /\ calls = 2
    /\ GotBatch
    /\ Len(batches) = 2
    /\ ret.ops = <<"clear", "window", "set", "frame">>
    /\ script[1].body # <<>>
    /\ script[1].body[1].t = "C"

\* C15: whenever a compressed frame of declared length N was handled without
\* error, exactly 4 + N bytes of the enclosing stream were consumed after its
\* 2-byte frame header.
C15_CompressedFrameConsumed ==
    \A i \in 1..Len(ret.zframes) :
        ret.zframes[i].err = "EOF"
        => ret.zframes[i].consumed = 4 + ret.zframes[i].declared

\* C16: when the body of a window is one well-formed compressed frame (which
\* may hold further compressed frames) and ReadBatch handles it, every data
\* frame inside it, at every depth, is an event of the Batch, in wire order:
\* the loop on the decompressed sub-stream runs to the end of the decompressor
\* and discards nothing.
C16_NothingDiscarded ==
    (script # <<>> /\ Len(script[1].body) = 1 /\ FirstWindowIs(script[1].body)
        /\ script[1].body[1].t = "C" /\ WellFormed(script[1].body) /\ GotBatch)
    => batches[ret.batch].Events = Payloads(script[1].body)

\* every compressed frame, at every depth, carries at least one event
RECURSIVE NoEmptyFrame(_)
NoEmptyFrame(b) ==
    \A i \in 1..Len(b) :
        b[i].t = "C" => (Payloads(b[i].in) # <<>> /\ NoEmptyFrame(b[i].in))

\* a window frame with its declared number of events in data frames and
\* well-formed compressed frames (count 0: a heartbeat)
ValidWindow(w) ==
    /\ w.v = CodeVersion
    /\ w.t = CodeWindowSize
    /\ WellFormed(w.body)
    /\ NoEmptyFrame(w.body)
    /\ Len(Payloads(w.body)) = w.count

\* the event sequences of the windows of ws that are not heartbeats
RECURSIVE BatchesOf(_)
BatchesOf(ws) ==
    IF ws = <<>> THEN <<>>
    ELSE (IF Head(ws).count > 0 THEN <<Payloads(Head(ws).body)>> ELSE <<>>)
            \o BatchesOf(Tail(ws))

\* C17: on a stream that is a concatenation of valid windows, the k-th
\* ReadBatch call starts at the k-th window, consumes exactly that window and
\* returns its result: nothing for a heartbeat, else a Batch with exactly the
\* events of that window; the Batches returned so far hold, in order, the
\* events of the windows read so far.
C17_OneResultPerWindow ==
    (/\ calls >= 1 /\ calls <= Len(script)
     /\ \A i \in 1..Len(script) : ValidWindow(script[i])
     /\ wire = EncodeStream(script)
     /\ endKind # "closed")
    => /\ Returned
       /\ ret.err = "nil"
       /\ ret.start = Len(EncodeStream(SubSeq(script, 1, calls - 1)))
       /\ pos = Len(EncodeStream(SubSeq(script, 1, calls)))
       /\ (ret.batch = NoBatch) <=> (script[calls].count = 0)
       /\ [b \in 1..Len(batches) |-> batches[b].Events]
            = BatchesOf(SubSeq(script, 1, calls))

SameLoop(i, j) ==
    /\ i < j
    /\ ret.seen[i].depth = ret.seen[j].depth
    /\ \A k \in (i + 1)..(j - 1) : ret.seen[k].depth >= ret.seen[i].depth

\* C19: on a connection that reaches its end after finitely many bytes every
\* ReadBatch call returns, with a result or an error.  Each iteration of the
\* event loop reads its frame header further on in its source than the one
\* before, at every depth, and each Read of the drain loop takes at least one
\* byte, except the last one, which ends the loop.
C19_Terminates ==
    (ret.state # "none" /\ endKind # "stall")
    => /\ GotBatch \/ GotHeartbeat \/ GotError
       /\ \A i, j \in 1..Len(ret.seen) :
             SameLoop(i, j) => ret.seen[j].off >= ret.seen[i].off + 2
       /\ \A z \in 1..Len(ret.zframes) :
             LET reads == ret.zframes[z].reads IN
             /\ reads # <<>>
             /\ \A k \in 1..Len(reads) : (reads[k] = 0) <=> (k = Len(reads))

\* a call that read a compressed frame inside a compressed frame and drained
\* trailing bytes in more than one Read before the Read that ended the loop
C19_Witness ==
    /\ endKind = "eof"
    /\ Returned
    /\ \E i \in 1..Len(ret.seen) : ret.seen[i].depth = 2
    /\ \E z \in 1..Len(ret.zframes) : Len(ret.zframes[z].reads) >= 3

====
